---- MODULE Spec2Model ----
(***************************************************************************)
(* A state-machine model of firestarter.py: the script stages a microVM's  *)
(* artifacts into a chroot, provisions tap devices, runs jailer/firecracker*)
(* under supervision, reacts to terminating signals and cleans up at exit. *)
(* The main flow is the module-level code of the script; pc names the      *)
(* statement the main flow is about to execute.                            *)
(***************************************************************************)
EXTENDS Integers, Sequences, FiniteSets, TLC

\* ------------------------------------------------------------------ bounds
MaxDrives == 2
MaxIfaces == 2
MaxSignals == 2
MaxHostOps == 1

\* ------------------------------------------------------- program constants
\* range(32768): the tap name space fctap0 .. fctap32767
TapNamespace == 32768
\* api_client.recv(256): a full chunk means more of the response may follow
RecvChunk == 256
\* signal.SIGKILL
SIGKILL == 9

\* ---------------------------------------------------------------- the host
\* An optional value is a sequence of length 0 (unbound name) or 1.
None == <<>>
Some(x) == <<x>>

\* The host's files. glob is the pattern (relative to base) the file matches;
\* lex is the file's rank when whole paths are compared.
Files ==
  { [base |-> "kbase", glob |-> "vmlinux-*",      name |-> "vmlinux-1", mtime |-> 2, ver |-> 1, lex |-> 4],
    [base |-> "kbase", glob |-> "vmlinux-*",      name |-> "vmlinux-2", mtime |-> 1, ver |-> 2, lex |-> 5],
    [base |-> "kbase", glob |-> "initrd-*",       name |-> "initrd-1",  mtime |-> 1, ver |-> 1, lex |-> 3],
    [base |-> "/",     glob |-> "boot/vmlinux-*", name |-> "vmlinux-3", mtime |-> 1, ver |-> 3, lex |-> 0],
    [base |-> "ibase", glob |-> "disk-*",         name |-> "disk-1",    mtime |-> 2, ver |-> 1, lex |-> 1],
    [base |-> "ibase", glob |-> "disk-*",         name |-> "disk-2",    mtime |-> 1, ver |-> 2, lex |-> 2],
    [base |-> "/",     glob |-> "img/disk-*",     name |-> "disk-3",    mtime |-> 1, ver |-> 3, lex |-> 7],
    [base |-> "/",     glob |-> "disk-*",         name |-> "disk-0",    mtime |-> 1, ver |-> 0, lex |-> 6] }

\* A configured path: abs says whether it starts with "/", rel is the rest.
KernelPatterns == { [abs |-> FALSE, rel |-> "vmlinux-*"], [abs |-> TRUE, rel |-> "boot/vmlinux-*"],
                    [abs |-> FALSE, rel |-> "none-*"],    [abs |-> TRUE, rel |-> "none-*"] }
InitrdPatterns == { [abs |-> FALSE, rel |-> "initrd-*"], [abs |-> FALSE, rel |-> "none-*"] }
DrivePatterns  == { [abs |-> FALSE, rel |-> "disk-*"], [abs |-> TRUE, rel |-> "img/disk-*"],
                    [abs |-> FALSE, rel |-> "none-*"], [abs |-> TRUE, rel |-> "none-*"] }

\* str(Path(...)) of a configured path
PatText(p) == IF p.abs THEN "/" \o p.rel ELSE p.rel

\* base.glob(pattern)
Glob(base, g) == { f \in Files : f.base = base /\ f.glob = g }

\* The ordering strategies the script defines.
Orderings == {"most_recent", "latest_version"}
\* The values a "glob_order" key is given in the model: the strategies, a
\* module-level name that is no strategy, and a name that is no global at all.
OrderNames == Orderings \cup {"Path", "bogus"}

\* most_recent, latest_version; Path(p) compares whole paths
most_recent(f) == f.mtime
latest_version(f) == f.ver
OrderKey(order, f) ==
  CASE order = "most_recent"    -> most_recent(f)
    [] order = "latest_version" -> latest_version(f)
    [] order = "Path"           -> f.lex

\* max(matches, key=glob_order): the set of maxima (one, unless keys tie)
MaxBy(order, S) == { f \in S : \A g \in S : OrderKey(order, g) <= OrderKey(order, f) }

\* globals(): the module-level names a "glob_order" value can hit. latest_version
\* is bound only when the packaging module was imported, and then it is the default.
GlobalNames(dgo) ==
  {"most_recent", "Path"} \cup (IF dgo = "latest_version" THEN {"latest_version"} ELSE {})

\* try: glob_order = cfg['glob_order']; del cfg['glob_order']
\*      glob_order = globals()[glob_order]
\* except KeyError: glob_order = default_glob_order
\* name is None when the key is absent.
LookupOrder(name, dgo) ==
  IF name = None THEN dgo
  ELSE IF name[1] \in GlobalNames(dgo) THEN name[1] ELSE dgo


\* ----------------------------------------------------------------- inputs
\* What the actions draw their inputs from. A specification passes each action
\* the set it draws from, so the staging phase can be explored over the wide
\* sets below and the supervision phase over one staged instance.
OptOrders == {None} \cup { Some(o) : o \in OrderNames }
Artifacts(P) == { [pat |-> p, order |-> o] : p \in P, o \in OptOrders }
\* is_file() of a binary at the pre-flight check; what exec makes of it at Popen
BinFiles == {"ok", "missing"}
ExecOutcomes == {"ok", "noexec"}
IfaceKinds == {"bridge", "hostdev", "plain"}
IpOutcomes == {"ok", "fail"}
Signals == {"SIGINT", "SIGTERM", "SIGQUIT", "SIGHUP"}

VARIABLES
  pc,                      \* the main flow's next statement
  exc,                     \* the uncaught exception that ended the main flow, or "none"
  exitCode,                \* the supervisor's exit status, None while it runs
  instance_dir,            \* "undef" | "def": whether the name is bound
  rootExists,              \* the instance root directory exists on disk
  links,                   \* the hard links in instance_chroot: name and the host path linked
  default_glob_order,      \* None before line 205
  config,                  \* the rewritten configuration fields
  config_json,             \* the content of config.json in the chroot, None before it is written
  p_glob,                  \* the drive loop's p_glob, None while unbound
  glob_order,              \* the ordering last looked up, None before the first lookup
  artifact,                \* the configuration entry resolved last: its field, path and "glob_order" value
  resolved,                \* the host paths that kernel, initrd and (per drive) p were bound to by max()
  errText,                 \* the text the ConfigError carries
  nDrives,                 \* drives the loop has processed
  nIfaces,                 \* interfaces the loop has processed
  tap,                     \* the network loop's tap (an index j of fctap<j>), None while unbound
  created_tap_interfaces,  \* the recorded tap names, as indices
  hostBase,                \* fctap0 .. fctap<hostBase-1> existed when the script started
  hostAdded,               \* indices of the devices created since
  hostDeleted,             \* indices of the devices deleted since
  ownDevs,                 \* devices this run's "ip tuntap add" created that still exist
  nHostOps,                \* devices other processes have created or deleted meanwhile
  spawned,                 \* the kinds of child process started so far
  nsig,                    \* signals delivered so far
  handlersInstalled,       \* signal.signal(...) has run for the four signals
  new_pid_ns,              \* args.new_pid_ns
  firecracker_process,     \* whether the name is bound (Popen has returned)
  returncode,              \* firecracker_process.returncode, None until the child is reaped
  child,                   \* the direct child: "none" | "running" | "zombie" | "reaped"
  childStatus,             \* its wait status: an exit code, or -signum when a signal killed it
  wl,                      \* with --new-pid-ns, the process the jailer forked: "none" | "running" | "dead"
  wlStatus,                \* its wait status
  pidfile,                 \* firecracker.pid has been written
  stranger,                \* an unrelated process that got the workload's PID number after it:
                           \* "none" | "alive" | "signalled" | "killed" | "gone"
  firecracker_pid,         \* "undef" | "int" | "pidfd" | "pidfd_other" | "closed"
  sock,                    \* the API socket: "absent" | "listening" | "stale"
  SentCtrlAltDel,          \* signal_handler.SentCtrlAltDel is set
  hstack,                  \* the running signal_handler invocations, innermost last
  sigLog,                  \* per delivered signal: how its handling went
  tapIdx,                  \* cleanup: index of the next record of the loop
  delAttempts,             \* cleanup: the devices whose deletion was attempted, in order
  delFailed,               \* cleanup: the attempts that failed
  rmtreeTried,             \* cleanup: rmtree was called
  cleanupRuns,             \* number of times cleanup was entered
  cleanupExc               \* the exception that ended cleanup, or "none"

stageVars == <<instance_dir, rootExists, links, default_glob_order, config, config_json,
               p_glob, glob_order, artifact, resolved, errText, nDrives>>
netVars == <<nIfaces, tap, created_tap_interfaces, hostBase, hostAdded, hostDeleted, ownDevs,
            nHostOps>>
hostVars == <<hostBase, hostAdded, hostDeleted>>

\* os.listdir('/sys/class/net'): fctap<j> is a device of the host
HasDev(j) == (j < hostBase /\ j \notin hostDeleted) \/ j \in hostAdded
\* a device appears, a device goes
AddDev(j) == hostAdded' = hostAdded \cup {j} /\ hostDeleted' = hostDeleted \ {j} /\ UNCHANGED hostBase
DelDev(j) == hostAdded' = hostAdded \ {j} /\ hostDeleted' = (hostDeleted \cup {j}) \cap 0..(hostBase - 1)
             /\ UNCHANGED hostBase
cleanVars == <<tapIdx, delAttempts, delFailed, rmtreeTried, cleanupRuns, cleanupExc>>
procVars == <<new_pid_ns, firecracker_process, returncode, child, childStatus, wl, wlStatus,
              pidfile, stranger, firecracker_pid, sock>>
sigVars == <<nsig, handlersInstalled, SentCtrlAltDel, hstack, sigLog>>
vars == <<pc, exc, exitCode, stageVars, netVars, spawned, procVars, sigVars, cleanVars>>

\* The main flow is still running (not in the exit hook and not gone).
CleanupPcs == {"cleanup_taps", "cleanup_rmtree"}
EndPcs == {"terminated", "killed"}
Running == pc \notin CleanupPcs \cup EndPcs

InitCommon ==
  /\ pc = "start"
  /\ exc = "none"
  /\ exitCode = None
  /\ instance_dir = "undef"
  /\ rootExists = FALSE
  /\ links = {}
  /\ default_glob_order = None
  /\ config = [kernel |-> None, initrd |-> None, drives |-> <<>>]
  /\ config_json = None
  /\ p_glob = None
  /\ glob_order = None
  /\ artifact = None
  /\ resolved = [kernel |-> None, initrd |-> None, drives |-> <<>>]
  /\ errText = ""
  /\ nDrives = 0
  /\ nIfaces = 0
  /\ tap = None
  /\ created_tap_interfaces = <<>>
  /\ hostAdded = {}
  /\ hostDeleted = {}
  /\ ownDevs = {}
  /\ nHostOps = 0
  /\ spawned = {}
  /\ nsig = 0
  /\ handlersInstalled = FALSE
  /\ new_pid_ns = FALSE
  /\ firecracker_process = FALSE
  /\ returncode = None
  /\ child = "none"
  /\ childStatus = 0
  /\ wl = "none"
  /\ wlStatus = 0
  /\ pidfile = FALSE
  /\ stranger = "none"
  /\ firecracker_pid = "undef"
  /\ sock = "absent"
  /\ SentCtrlAltDel = FALSE
  /\ hstack = <<>>
  /\ sigLog = <<>>
  /\ tapIdx = 1
  /\ delAttempts = <<>>
  /\ delFailed = {}
  /\ rmtreeTried = FALSE
  /\ cleanupRuns = 0
  /\ cleanupExc = "none"

\* An uncaught exception in the main flow: the interpreter prints it, runs the
\* atexit hook (cleanup) and exits with status 1.
Raise(e) ==
  /\ pc' = "cleanup_taps"
  /\ exc' = e
  /\ exitCode' = Some(1)
  /\ tapIdx' = 1
  /\ cleanupRuns' = cleanupRuns + 1
  /\ UNCHANGED <<delAttempts, delFailed, rmtreeTried, cleanupExc>>

Goto(l) == pc' = l /\ UNCHANGED <<exc, exitCode, cleanVars>>

\* lines 145-190: the config file, the two binaries, the user account
Preflight(B) ==
  /\ pc = "start"
  /\ \E cfgOk \in BOOLEAN, userOk \in BOOLEAN, jl \in B, fc \in B :
       IF ~cfgOk THEN Raise("FileNotFoundError")
       ELSE IF fc = "missing" THEN Raise("FileNotFoundError")
       ELSE IF jl = "missing" THEN Raise("FileNotFoundError")
       ELSE IF ~userOk THEN Raise("KeyError")
       ELSE Goto("mkroot")
  /\ UNCHANGED <<instance_dir, rootExists, links, default_glob_order, config, config_json,
                 p_glob, glob_order, artifact, resolved, errText, nDrives, netVars, spawned, procVars, sigVars>>

\* lines 192-201: instance_dir is bound, then mkdir(parents=True) and chown
MkRoot ==
  /\ pc = "mkroot"
  /\ instance_dir' = "def"
  /\ \E mkdirOk \in BOOLEAN, chownOk \in BOOLEAN :
       /\ rootExists' = mkdirOk
       /\ IF ~mkdirOk THEN Raise("PermissionError")
          ELSE IF ~chownOk THEN Raise("PermissionError")
          ELSE Goto("orders")
  /\ UNCHANGED <<links, default_glob_order, config, config_json, p_glob, glob_order, artifact, resolved,
                 errText, nDrives, netVars, spawned, procVars, sigVars>>

\* lines 203-222: default_glob_order is latest_version iff packaging was imported
\* (H: whether the host has the packaging module)
DefineOrders(H) ==
  /\ pc = "orders"
  /\ \E havePackaging \in H :
       default_glob_order' = IF havePackaging THEN "latest_version" ELSE "most_recent"
  /\ Goto("kernel")
  /\ UNCHANGED <<instance_dir, rootExists, links, config, config_json, p_glob,
                 glob_order, artifact, resolved, errText, nDrives, netVars, spawned, procVars, sigVars>>

\* A host path as its components; glob() yields base / directories of the
\* pattern / file name.
GlobDir(g) ==
  CASE g = "boot/vmlinux-*" -> <<"boot">>
    [] g = "img/disk-*"     -> <<"img">>
    [] OTHER                -> <<>>
PathOf(f) == <<f.base>> \o GlobDir(f.glob) \o <<f.name>>
\* Path.name: the final component
Name(path) == path[Len(path)]

\* the configuration keeping the resolved path from its first component on
\* instead of its file name
StoredFromAnchor(path) == path[1]

\* lines 243, 265, 291: config[...] = kernel.name / initrd.name / p.name
StoredName(path) == Name(path)

\* (instance_chroot / name).hardlink_to(target): fails when the name is taken
CanLink(name) == \A l \in links : l.name # name
HardLink(name, target) == [name |-> name, target |-> target]

\* lines 224-245
StageKernel(D) ==
  /\ pc = "kernel"
  /\ \E a \in D :
       LET kernel_glob == a.pat.rel
           kernel_glob_base == IF a.pat.abs THEN "/" ELSE "kbase"
           order == LookupOrder(a.order, default_glob_order)
           matches == Glob(kernel_glob_base, kernel_glob)
       IN /\ glob_order' = Some(order)
          /\ artifact' = Some([kind |-> "kernel", pat |-> a.pat, order |-> a.order])
          /\ IF matches = {}
             THEN /\ Raise("ConfigError")
                  /\ errText' = PatText(a.pat)
                  /\ UNCHANGED <<links, resolved, config>>
             ELSE \E kernel \in MaxBy(order, matches) :
                    /\ resolved' = [resolved EXCEPT !.kernel = Some(PathOf(kernel))]
                    /\ config' = [config EXCEPT !.kernel = Some(StoredName(PathOf(kernel)))]
                    /\ links' = links \cup {HardLink(Name(PathOf(kernel)), PathOf(kernel))}
                    /\ Goto("initrd")
                    /\ UNCHANGED errText
  /\ UNCHANGED <<instance_dir, rootExists, default_glob_order, config_json, p_glob,
                 nDrives, netVars, spawned, procVars, sigVars>>

\* lines 247-269. The kernel step has deleted config['boot-source']['glob_order'],
\* so the lookup at line 257 raises KeyError and the default is taken.
\* P holds optional patterns: None is a boot-source without 'initrd_path'.
StageInitrd(P) ==
  /\ pc = "initrd"
  /\ \E opt \in P :
       IF opt = None
       THEN /\ Goto("drives")
            /\ UNCHANGED <<links, config, glob_order, artifact, resolved, errText>>
       ELSE LET pat == opt[1]
                initrd_glob == pat.rel
                initrd_glob_base == IF pat.abs THEN "/" ELSE "kbase"
                order == LookupOrder(None, default_glob_order)
                matches == Glob(initrd_glob_base, initrd_glob)
            IN /\ glob_order' = Some(order)
               /\ artifact' = Some([kind |-> "initrd", pat |-> pat, order |-> None])
               /\ IF matches = {}
                  THEN /\ Raise("ConfigError")
                       /\ errText' = PatText(pat)
                       /\ UNCHANGED <<links, resolved, config>>
                  ELSE \E initrd \in MaxBy(order, matches) :
                         /\ resolved' = [resolved EXCEPT !.initrd = Some(PathOf(initrd))]
                         /\ config' = [config EXCEPT !.initrd = Some(StoredName(PathOf(initrd)))]
                         /\ UNCHANGED errText
                         /\ IF CanLink(initrd.name)
                            THEN /\ links' = links \cup {HardLink(Name(PathOf(initrd)), PathOf(initrd))}
                                 /\ Goto("drives")
                            ELSE UNCHANGED links /\ Raise("FileExistsError")
  /\ UNCHANGED <<instance_dir, rootExists, default_glob_order, config_json, p_glob,
                 nDrives, netVars, spawned, procVars, sigVars>>

\* The pattern the drive loop globs: line 275 assigns the stripped absolute
\* path to p, not to p_glob, so an absolute drive leaves p_glob as it was.
DriveGlob(pat, prev) == IF pat.abs THEN prev ELSE Some(pat.rel)

\* lines 272-293, one iteration of the loop
StageDrive(D) ==
  /\ pc = "drives"
  /\ nDrives < MaxDrives
  /\ \E a \in D :
       LET p_glob_base == IF a.pat.abs THEN "/" ELSE "ibase"
           g == DriveGlob(a.pat, p_glob)
           order == LookupOrder(a.order, default_glob_order)
       IN /\ p_glob' = g
          /\ glob_order' = Some(order)
          /\ artifact' = Some([kind |-> "drive", pat |-> a.pat, order |-> a.order])
          /\ nDrives' = nDrives + 1
          /\ IF g = None
             THEN /\ Raise("NameError")
                  /\ UNCHANGED <<links, resolved, config, errText>>
             ELSE IF Glob(p_glob_base, g[1]) = {}
             THEN /\ Raise("ConfigError")
                  /\ errText' = a.pat.rel
                  /\ UNCHANGED <<links, resolved, config>>
             ELSE \E p \in MaxBy(order, Glob(p_glob_base, g[1])) :
                    /\ resolved' = [resolved EXCEPT !.drives = Append(@, PathOf(p))]
                    /\ config' = [config EXCEPT !.drives = Append(@, StoredName(PathOf(p)))]
                    /\ UNCHANGED errText
                    /\ IF CanLink(p.name)
                       THEN /\ links' = links \cup {HardLink(Name(PathOf(p)), PathOf(p))}
                            /\ Goto("drives")
                       ELSE UNCHANGED links /\ Raise("FileExistsError")
  /\ UNCHANGED <<instance_dir, rootExists, default_glob_order, config_json,
                 netVars, spawned, procVars, sigVars>>

\* the drive loop ends (lines 295-300: the network section is next)
DrivesDone ==
  /\ pc = "drives"
  /\ Goto("network")
  /\ UNCHANGED <<stageVars, netVars, spawned, procVars, sigVars>>


\* ------------------------------------------------------------- networking
\* lines 303-307: the least j in range(32768) with 'fctap' + str(j) not among
\* the host's devices; when there is none the loop ends without binding tap.
HasFreeTap == \E j \in 0..(TapNamespace - 1) : ~HasDev(j)
LeastFreeTap == CHOOSE j \in 0..(TapNamespace - 1) : ~HasDev(j) /\ \A k \in 0..(j - 1) : HasDev(k)
ScanTap(prev) == IF HasFreeTap THEN Some(LeastFreeTap) ELSE prev

\* lines 301-308: the next interface; a bridged one gets a tap name, which is
\* recorded before the device is created (K: the kinds of interface the
\* configuration may list, N: how many it lists at most)
NextIface(K, N) ==
  /\ pc = "network"
  /\ nIfaces < N
  /\ \E kind \in K :
       IF kind = "bridge"
       THEN LET t == ScanTap(tap)
            IN /\ tap' = t
               /\ IF t = None
                  THEN /\ Raise("NameError")
                       /\ UNCHANGED <<created_tap_interfaces, nIfaces>>
                  ELSE /\ created_tap_interfaces' = Append(created_tap_interfaces, t[1])
                       /\ Goto("tap_add")
                       /\ UNCHANGED nIfaces
       ELSE /\ nIfaces' = nIfaces + 1
            /\ Goto("network")
            /\ UNCHANGED <<tap, created_tap_interfaces>>
  /\ UNCHANGED <<stageVars, hostVars, ownDevs, nHostOps, spawned, procVars, sigVars>>

\* lines 309-310: ip tuntap add dev <tap> mode tap, check=True
TapAdd(O) ==
  /\ pc = "tap_add"
  /\ spawned' = spawned \cup {"ip_add"}
  /\ \E o \in O :
       IF o = "ok" /\ ~HasDev(tap[1])
       THEN /\ AddDev(tap[1])
            /\ ownDevs' = ownDevs \cup {tap[1]}
            /\ Goto("tap_master")
       ELSE /\ Raise("CalledProcessError")
            /\ UNCHANGED <<hostVars, ownDevs>>
  /\ UNCHANGED <<stageVars, nIfaces, tap, created_tap_interfaces, nHostOps, procVars, sigVars>>

\* lines 311-315: ip link set ... master <bridge>, then ip link set ... up
TapSet(O) ==
  /\ pc \in {"tap_master", "tap_up"}
  /\ spawned' = spawned \cup {"ip_set"}
  /\ \E o \in O :
       IF o = "ok"
       THEN IF pc = "tap_master"
            THEN Goto("tap_up") /\ UNCHANGED nIfaces
            ELSE Goto("network") /\ nIfaces' = nIfaces + 1
       ELSE Raise("CalledProcessError") /\ UNCHANGED nIfaces
  /\ UNCHANGED <<stageVars, tap, created_tap_interfaces, hostVars, ownDevs, nHostOps, procVars, sigVars>>

\* the interface loop ends
NetDone ==
  /\ pc = "network"
  /\ Goto("write_config")
  /\ UNCHANGED <<stageVars, netVars, spawned, procVars, sigVars>>

\* lines 342-344
WriteConfig ==
  /\ pc = "write_config"
  /\ config_json' = Some(config)
  /\ Goto("install")
  /\ UNCHANGED <<instance_dir, rootExists, links, default_glob_order, config, p_glob,
                 glob_order, artifact, resolved, errText, nDrives, netVars, spawned, procVars, sigVars>>

\* lines 367-369
InstallHandlers ==
  /\ pc = "install"
  /\ handlersInstalled' = TRUE
  /\ Goto("popen")
  /\ UNCHANGED <<stageVars, netVars, spawned, procVars, nsig, SentCtrlAltDel, hstack, sigLog>>

\* ---------------------------------------------------------------- cleanup
\* cleanup as it would be with check=True on the deletion: the first failed
\* deletion raises out of cleanup
CleanupTapChecked ==
  /\ pc = "cleanup_taps"
  /\ hstack = <<>>
  /\ tapIdx <= Len(created_tap_interfaces)
  /\ LET t == created_tap_interfaces[tapIdx]
     IN /\ delAttempts' = Append(delAttempts, t)
        /\ delFailed' = IF HasDev(t) THEN delFailed ELSE delFailed \cup {Len(delAttempts) + 1}
        /\ pc' = IF HasDev(t) THEN pc ELSE "terminated"
        /\ cleanupExc' = IF HasDev(t) THEN cleanupExc ELSE "CalledProcessError"
        /\ DelDev(t)
        /\ ownDevs' = ownDevs \ {t}
  /\ tapIdx' = tapIdx + 1
  /\ spawned' = spawned \cup {"ip_del"}
  /\ UNCHANGED <<exc, exitCode, stageVars, nIfaces, tap, created_tap_interfaces, nHostOps,
                 procVars, sigVars, rmtreeTried, cleanupRuns>>

\* lines 38-39: subprocess.run(['ip', 'link', 'delete', 'dev', tap]) without
\* check: a failed deletion is not an error of the script
CleanupTap ==
  /\ pc = "cleanup_taps"
  /\ hstack = <<>>
  /\ tapIdx <= Len(created_tap_interfaces)
  /\ LET t == created_tap_interfaces[tapIdx]
     IN /\ delAttempts' = Append(delAttempts, t)
        /\ delFailed' = IF HasDev(t) THEN delFailed ELSE delFailed \cup {Len(delAttempts) + 1}
        /\ DelDev(t)
        /\ ownDevs' = ownDevs \ {t}
  /\ tapIdx' = tapIdx + 1
  /\ spawned' = spawned \cup {"ip_del"}
  /\ UNCHANGED <<pc, exc, exitCode, stageVars, nIfaces, tap, created_tap_interfaces, nHostOps,
                 procVars, sigVars, rmtreeTried, cleanupRuns, cleanupExc>>

\* the for loop of cleanup is exhausted
CleanupTapsDone ==
  /\ pc = "cleanup_taps"
  /\ hstack = <<>>
  /\ tapIdx > Len(created_tap_interfaces)
  /\ pc' = "cleanup_rmtree"
  /\ UNCHANGED <<exc, exitCode, stageVars, netVars, spawned, procVars, sigVars, cleanVars>>

\* lines 41-44: shutil.rmtree(instance_dir); only NameError is caught
RmtreeResult(dir, exists) ==
  IF dir = "undef" THEN "none"            \* NameError, swallowed
  ELSE IF exists THEN "none"
  ELSE "FileNotFoundError"

CleanupRmtree ==
  /\ pc = "cleanup_rmtree"
  /\ hstack = <<>>
  /\ rmtreeTried' = (rmtreeTried \/ instance_dir = "def")
  /\ cleanupExc' = RmtreeResult(instance_dir, rootExists)
  /\ rootExists' = FALSE
  /\ links' = IF rootExists THEN {} ELSE links
  /\ pc' = "terminated"
  /\ UNCHANGED <<exc, exitCode, instance_dir, default_glob_order, config, config_json,
                 p_glob, glob_order, artifact, resolved, errText, nDrives, netVars, spawned, procVars, sigVars,
                 tapIdx, delAttempts, delFailed, cleanupRuns>>

\* cleanup() called once more after it has returned
CleanupAgain ==
  /\ pc = "terminated"
  /\ cleanupRuns = 1
  /\ cleanupExc = "none"
  /\ pc' = "cleanup_taps"
  /\ tapIdx' = 1
  /\ cleanupRuns' = cleanupRuns + 1
  /\ UNCHANGED <<exc, exitCode, stageVars, netVars, spawned, procVars, sigVars, delAttempts,
                 delFailed, rmtreeTried, cleanupExc>>

\* ------------------------------------------------- signals before line 368
\* Until the handlers are installed the signals keep their default
\* disposition: SIGINT raises KeyboardInterrupt in the main flow, the
\* others end the process at once, without the atexit hook.
StartupSignal ==
  /\ ~handlersInstalled
  /\ pc \notin EndPcs
  /\ \E sig \in Signals :
       IF sig = "SIGINT"
       THEN IF pc \in CleanupPcs
            THEN /\ pc' = "terminated"
                 /\ cleanupExc' = "KeyboardInterrupt"
                 /\ UNCHANGED <<exc, exitCode, tapIdx, delAttempts, delFailed, rmtreeTried,
                                cleanupRuns>>
            ELSE Raise("KeyboardInterrupt")
       ELSE /\ pc' = "killed"
            /\ UNCHANGED <<exc, exitCode, cleanVars>>
  /\ UNCHANGED <<stageVars, netVars, spawned, procVars, sigVars>>

\* Another process of the host creates or deletes a tap device whose name
\* this run has recorded (a second instance provisioning, an administrator).
OtherProcess ==
  /\ pc \notin EndPcs
  /\ nHostOps < MaxHostOps
  /\ nHostOps' = nHostOps + 1
  /\ \E i \in 1..Len(created_tap_interfaces) :
       LET t == created_tap_interfaces[i]
       IN /\ IF HasDev(t) THEN DelDev(t) ELSE AddDev(t)
          /\ ownDevs' = ownDevs \ {t}
  /\ UNCHANGED <<pc, exc, exitCode, stageVars, nIfaces, tap, created_tap_interfaces, spawned,
                 procVars, sigVars, cleanVars>>

\* lines 347-373: the command line is assembled and the jailer is started
Popen(X, NS) ==
  /\ pc = "popen"
  /\ hstack = <<>>
  /\ \E x \in X, ns \in NS :
       /\ new_pid_ns' = ns
       /\ IF x = "noexec"
          THEN /\ Raise("PermissionError")
               /\ UNCHANGED <<spawned, firecracker_process, child>>
          ELSE /\ Goto("launched")
               /\ spawned' = spawned \cup {"jailer"}
               /\ firecracker_process' = TRUE
               /\ child' = "running"
  /\ UNCHANGED <<stageVars, netVars, returncode, childStatus, wl, wlStatus, pidfile, stranger,
                 firecracker_pid, sock, sigVars>>

\* ------------------------------------------------------------ supervision
SigNum(sig) ==
  CASE sig = "SIGHUP" -> 1 [] sig = "SIGINT" -> 2 [] sig = "SIGQUIT" -> 3 [] sig = "SIGTERM" -> 15

\* the exit codes a process ends with by itself
ExitCodes == {0, 1}

\* The process that runs the guest: the direct child (the jailer execs
\* firecracker), or with --new-pid-ns the process the jailer forked.
WorkloadRunning == IF new_pid_ns THEN wl = "running" ELSE child = "running"

\* the API socket once its listener is gone
SockAfterExit(sk) == IF sk = "listening" THEN "stale" ELSE sk

\* firecracker creates its API socket some time after it started
SocketUp ==
  /\ pc \notin EndPcs
  /\ WorkloadRunning
  /\ sock = "absent"
  /\ sock' = "listening"
  /\ UNCHANGED <<pc, exc, exitCode, stageVars, netVars, spawned, new_pid_ns, firecracker_process,
                 returncode, child, childStatus, wl, wlStatus, pidfile, stranger, firecracker_pid,
                 sigVars, cleanVars>>

\* the direct child ends by itself: firecracker after the guest shut down, or
\* (with --new-pid-ns) the jailer failing before it forks
ChildExits(C) ==
  /\ pc \notin EndPcs
  /\ child = "running"
  /\ wl = "none"
  /\ \E c \in C : childStatus' = c
  /\ child' = "zombie"
  /\ sock' = SockAfterExit(sock)
  /\ UNCHANGED <<pc, exc, exitCode, stageVars, netVars, spawned, new_pid_ns, firecracker_process,
                 returncode, wl, wlStatus, pidfile, stranger, firecracker_pid, sigVars, cleanVars>>

\* with --new-pid-ns the jailer forks, writes firecracker.pid and exits
JailerForks ==
  /\ pc \notin EndPcs
  /\ new_pid_ns
  /\ child = "running"
  /\ wl = "none"
  /\ wl' = "running"
  /\ pidfile' = TRUE
  /\ child' = "zombie"
  /\ childStatus' = 0
  /\ UNCHANGED <<pc, exc, exitCode, stageVars, netVars, spawned, new_pid_ns, firecracker_process,
                 returncode, wlStatus, stranger, firecracker_pid, sock, sigVars, cleanVars>>

\* the forked workload ends by itself
WorkloadExits(C) ==
  /\ pc \notin EndPcs
  /\ wl = "running"
  /\ \E c \in C : wlStatus' = c
  /\ wl' = "dead"
  /\ sock' = SockAfterExit(sock)
  /\ UNCHANGED <<pc, exc, exitCode, stageVars, netVars, spawned, new_pid_ns, firecracker_process,
                 returncode, child, childStatus, pidfile, stranger, firecracker_pid, sigVars, cleanVars>>

\* between lines 373 and 374: communicate() starts to wait
EnterWait ==
  /\ pc = "launched"
  /\ hstack = <<>>
  /\ Goto("communicate")
  /\ UNCHANGED <<stageVars, netVars, spawned, procVars, sigVars>>

\* lines 374-376: communicate() returns once the direct child is reaped
Wait ==
  /\ pc = "communicate"
  /\ hstack = <<>>
  /\ returncode # None \/ child = "zombie"
  /\ returncode' = IF returncode # None THEN returncode ELSE Some(childStatus)
  /\ child' = IF child = "zombie" THEN "reaped" ELSE child
  /\ Goto(IF new_pid_ns THEN "read_pid" ELSE "sys_exit")
  /\ UNCHANGED <<stageVars, netVars, spawned, new_pid_ns, firecracker_process, childStatus,
                 wl, wlStatus, pidfile, stranger, firecracker_pid, sock, sigVars>>

\* lines 379-382
ReadPid ==
  /\ pc = "read_pid"
  /\ hstack = <<>>
  /\ IF pidfile
     THEN Goto("pidfd_open") /\ firecracker_pid' = "int"
     ELSE Raise("FileNotFoundError") /\ UNCHANGED firecracker_pid
  /\ UNCHANGED <<stageVars, netVars, spawned, new_pid_ns, firecracker_process, returncode,
                 child, childStatus, wl, wlStatus, pidfile, stranger, sock, sigVars>>

\* the PID number is in use by a process
StrangerAlive == stranger \in {"alive", "signalled"}

\* after the workload has exited its PID number is given to a new process
PidReuse ==
  /\ pc \notin EndPcs
  /\ wl = "dead"
  /\ stranger = "none"
  /\ stranger' = "alive"
  /\ UNCHANGED <<pc, exc, exitCode, stageVars, netVars, spawned, new_pid_ns, firecracker_process,
                 returncode, child, childStatus, wl, wlStatus, pidfile, firecracker_pid, sock,
                 sigVars, cleanVars>>

\* that process ends by itself
StrangerExits ==
  /\ pc \notin EndPcs
  /\ StrangerAlive
  /\ stranger' = "gone"
  /\ UNCHANGED <<pc, exc, exitCode, stageVars, netVars, spawned, new_pid_ns, firecracker_process,
                 returncode, child, childStatus, wl, wlStatus, pidfile, firecracker_pid, sock,
                 sigVars, cleanVars>>

\* lines 383-388: any exception of pidfd_open leaves the raw PID
PidfdOpen(PF) ==
  /\ pc = "pidfd_open"
  /\ hstack = <<>>
  /\ \E ok \in PF :
       firecracker_pid' = IF ~ok THEN "int"
                          ELSE IF wl = "running" THEN "pidfd"
                          ELSE IF StrangerAlive THEN "pidfd_other"
                          ELSE "int"
  /\ Goto("poll_probe")
  /\ UNCHANGED <<stageVars, netVars, spawned, new_pid_ns, firecracker_process, returncode,
                 child, childStatus, wl, wlStatus, pidfile, stranger, sock, sigVars>>

\* The process that os.kill(firecracker_pid, ...) or
\* pidfd_send_signal(firecracker_pid.fileno(), ...) reaches: a PID number
\* denotes whatever process has it now, a pidfd the process it was opened on.
TargetOf(fp) ==
  CASE fp = "int"         -> IF wl = "running" THEN "workload"
                             ELSE IF StrangerAlive THEN "stranger" ELSE "nobody"
    [] fp = "pidfd"       -> IF wl = "running" THEN "workload" ELSE "nobody"
    [] fp = "pidfd_other" -> IF StrangerAlive THEN "stranger" ELSE "nobody"
    [] OTHER              -> "nobody"

\* os.kill(pid, 0) / pidfd_send_signal(fd, 0) finds a process
TargetExists == TargetOf(firecracker_pid) # "nobody"

\* firecracker_pid.close() when it is no int
Closed(fp) == IF fp \in {"pidfd", "pidfd_other"} THEN "closed" ELSE fp

\* lines 389-400
PollProbe ==
  /\ pc = "poll_probe"
  /\ hstack = <<>>
  /\ IF TargetExists
     THEN Goto("poll_sleep") /\ UNCHANGED firecracker_pid
     ELSE /\ Goto("sys_exit")
          /\ firecracker_pid' = Closed(firecracker_pid)
  /\ UNCHANGED <<stageVars, netVars, spawned, new_pid_ns, firecracker_process, returncode,
                 child, childStatus, wl, wlStatus, pidfile, stranger, sock, sigVars>>

\* line 401
PollSleep ==
  /\ pc = "poll_sleep"
  /\ hstack = <<>>
  /\ Goto("poll_probe")
  /\ UNCHANGED <<stageVars, netVars, spawned, procVars, sigVars>>

\* sys.exit(n): the exit status is n modulo 256
ExitStatus(rc) == rc % 256

\* line 402: sys.exit(firecracker_process.returncode), then the atexit hook
SysExit ==
  /\ pc = "sys_exit"
  /\ hstack = <<>>
  /\ pc' = "cleanup_taps"
  /\ exitCode' = Some(ExitStatus(returncode[1]))
  /\ tapIdx' = 1
  /\ cleanupRuns' = cleanupRuns + 1
  /\ UNCHANGED <<exc, delAttempts, delFailed, rmtreeTried, cleanupExc, stageVars, netVars,
                 spawned, procVars, sigVars>>

\* --------------------------------------------------------- signal_handler
Top == hstack[Len(hstack)]
Below == SubSeq(hstack, 1, Len(hstack) - 1)
Handling(h) == hstack # <<>> /\ Top.hpc = h

\* An exception leaves a handler invocation and reaches the frames it
\* interrupted, innermost first. An invocation inside its try at line 68
\* catches socket.timeout and goes on to close(); one inside its try at lines
\* 94/101 catches ProcessLookupError and returns.
RECURSIVE Unwind(_, _)
Unwind(stk, e) ==
  IF stk = <<>> THEN [stack |-> <<>>, caught |-> FALSE, returned |-> {}]
  ELSE LET g == stk[Len(stk)]
           rest == SubSeq(stk, 1, Len(stk) - 1)
       IN IF g.hpc = "recv" /\ e = "timeout"
          THEN [stack |-> Append(rest, [g EXCEPT !.hpc = "close"]), caught |-> TRUE, returned |-> {}]
          ELSE IF g.hpc = "kill2" /\ e = "ProcessLookupError"
          THEN [stack |-> rest, caught |-> TRUE, returned |-> {g.n}]
          ELSE Unwind(rest, e)

\* What the main flow does with an exception a handler let out: inside the
\* exit hook it ends cleanup; the try at lines 383-388 swallows it; the try at
\* lines 390-400 takes ProcessLookupError for the end of the workload;
\* anywhere else it is uncaught.
MainGets(e) ==
  IF pc \in CleanupPcs
  THEN /\ pc' = "terminated"
       /\ cleanupExc' = e
       /\ UNCHANGED <<exc, exitCode, tapIdx, delAttempts, delFailed, rmtreeTried, cleanupRuns,
                      firecracker_pid>>
  ELSE IF pc = "pidfd_open"
  THEN Goto("poll_probe") /\ UNCHANGED firecracker_pid
  ELSE IF pc = "poll_probe" /\ e = "ProcessLookupError"
  THEN /\ Goto("sys_exit")
       /\ firecracker_pid' = Closed(firecracker_pid)
  ELSE Raise(e) /\ UNCHANGED firecracker_pid

mainVars == <<pc, exc, exitCode, cleanVars, firecracker_pid>>

\* the innermost invocation goes on at h / returns / raises e
HStep(h, log) ==
  /\ hstack' = [hstack EXCEPT ![Len(hstack)].hpc = h]
  /\ sigLog' = log
  /\ UNCHANGED mainVars

HReturn(log) ==
  /\ hstack' = Below
  /\ sigLog' = [log EXCEPT ![Top.n].result = "returned"]
  /\ UNCHANGED mainVars

HThrow(e, log) ==
  LET u == Unwind(Below, e)
      live == { u.stack[k].n : k \in 1..Len(u.stack) }
  IN /\ hstack' = u.stack
     /\ sigLog' = [k \in 1..Len(log) |->
                     IF log[k].result = "running" /\ k \notin live
                     THEN [log[k] EXCEPT !.result = IF k \in u.returned THEN "returned" ELSE e]
                     ELSE log[k]]
     /\ IF u.caught THEN UNCHANGED mainVars ELSE MainGets(e)

\* A signal arrives once the handlers are installed: signal_handler is
\* entered on top of whatever runs, and line 56 picks the branch.
Deliver(S) ==
  /\ handlersInstalled
  /\ pc \notin EndPcs
  /\ nsig < MaxSignals
  /\ nsig' = nsig + 1
  /\ \E sig \in S :
       /\ hstack' = Append(hstack, [n |-> nsig + 1, sig |-> sig,
                                    hpc |-> IF SentCtrlAltDel THEN "poll" ELSE "connect"])
       /\ sigLog' = Append(sigLog, [latch |-> SentCtrlAltDel,
                                    alive |-> WorkloadRunning, nested |-> hstack # <<>>,
                                    sent |-> FALSE, forced |-> FALSE, result |-> "running"])
  /\ UNCHANGED <<mainVars, stageVars, netVars, spawned, new_pid_ns, firecracker_process,
                 returncode, child, childStatus, wl, wlStatus, pidfile, stranger, sock,
                 handlersInstalled, SentCtrlAltDel>>

Outcomes == {"ok", "timeout"}
RecvResults == { [kind |-> "data", len |-> 0], [kind |-> "data", len |-> RecvChunk - 1],
                 [kind |-> "data", len |-> RecvChunk], [kind |-> "timeout", len |-> 0],
                 [kind |-> "reset", len |-> 0] }

hFrame == <<stageVars, netVars, spawned, nsig, handlersInstalled, new_pid_ns,
            firecracker_process, pidfile>>

\* lines 64-66: socket(), settimeout(0.1), connect(); nothing is caught here
ConnectResult(sk, o) ==
  IF sk = "absent" THEN "FileNotFoundError"
  ELSE IF sk = "stale" THEN "ConnectionRefusedError"
  ELSE o

HConnect ==
  /\ Handling("connect")
  /\ \E o \in Outcomes :
       LET r == ConnectResult(sock, o)
       IN IF r = "ok" THEN HStep("send", sigLog) ELSE HThrow(r, sigLog)
  /\ UNCHANGED <<hFrame, stranger, returncode, child, childStatus, wl, wlStatus, sock, SentCtrlAltDel>>

\* line 67: send(); nothing is caught here
HSend ==
  /\ Handling("send")
  /\ \E o \in Outcomes :
       IF sock # "listening" THEN HThrow("BrokenPipeError", sigLog)
       ELSE IF o = "ok" THEN HStep("recv", [sigLog EXCEPT ![Top.n].sent = TRUE])
       ELSE HThrow("timeout", sigLog)
  /\ UNCHANGED <<hFrame, stranger, returncode, child, childStatus, wl, wlStatus, sock, SentCtrlAltDel>>

\* lines 68-72: recv(256) until a short chunk; socket.timeout is caught
HRecv ==
  /\ Handling("recv")
  /\ \E r \in RecvResults :
       IF r.kind = "reset" THEN HThrow("ConnectionResetError", sigLog)
       ELSE IF r.kind = "data" /\ r.len >= RecvChunk THEN HStep("recv", sigLog)
       ELSE HStep("close", sigLog)
  /\ UNCHANGED <<hFrame, stranger, returncode, child, childStatus, wl, wlStatus, sock, SentCtrlAltDel>>

\* lines 73-74
HClose ==
  /\ Handling("close")
  /\ SentCtrlAltDel' = TRUE
  /\ HReturn(sigLog)
  /\ UNCHANGED <<hFrame, stranger, returncode, child, childStatus, wl, wlStatus, sock>>

\* line 81: firecracker_process.poll(). While the main flow waits in
\* communicate() it holds the Popen object's wait lock and poll() answers
\* None; otherwise poll() reaps a child that has exited.
HPoll ==
  /\ Handling("poll")
  /\ IF ~firecracker_process
     THEN HThrow("NameError", sigLog) /\ UNCHANGED <<returncode, child>>
     ELSE IF returncode # None
     THEN HStep("else", sigLog) /\ UNCHANGED <<returncode, child>>
     ELSE IF pc # "communicate" /\ child = "zombie"
     THEN /\ returncode' = Some(childStatus)
          /\ child' = "reaped"
          /\ HStep("else", sigLog)
     ELSE HStep("forward", sigLog) /\ UNCHANGED <<returncode, child>>
  /\ UNCHANGED <<hFrame, stranger, childStatus, wl, wlStatus, sock, SentCtrlAltDel>>

\* line 83: firecracker_process.send_signal(sig); the child may die of it
HForward ==
  /\ Handling("forward")
  /\ \E dies \in BOOLEAN :
       IF dies /\ child = "running"
       THEN /\ child' = "zombie"
            /\ childStatus' = 0 - SigNum(Top.sig)
            /\ sock' = SockAfterExit(sock)
       ELSE UNCHANGED <<child, childStatus, sock>>
  /\ HStep("grace", [sigLog EXCEPT ![Top.n].forced = TRUE])
  /\ UNCHANGED <<hFrame, stranger, returncode, wl, wlStatus, SentCtrlAltDel>>

\* lines 84-87: communicate(timeout=0.25), kill() on TimeoutExpired. With
\* the wait lock held by the main flow the timeout always expires.
HGrace ==
  /\ Handling("grace")
  /\ IF pc # "communicate" /\ returncode = None /\ child = "zombie"
     THEN /\ returncode' = Some(childStatus)
          /\ child' = "reaped"
          /\ UNCHANGED <<childStatus, sock>>
     ELSE IF returncode = None /\ child = "running"
     THEN /\ child' = "zombie"
          /\ childStatus' = 0 - SIGKILL
          /\ sock' = SockAfterExit(sock)
          /\ UNCHANGED returncode
     ELSE UNCHANGED <<returncode, child, childStatus, sock>>
  /\ HReturn(sigLog)
  /\ UNCHANGED <<hFrame, stranger, wl, wlStatus, SentCtrlAltDel>>

\* lines 91-92 and 99: the first os.kill / pidfd_send_signal is not in a try
HElse ==
  /\ Handling("else")
  /\ IF firecracker_pid = "undef"
     THEN HThrow("NameError", sigLog) /\ UNCHANGED <<wl, wlStatus, sock, stranger>>
     ELSE IF firecracker_pid = "closed"
     THEN HThrow("ValueError", sigLog) /\ UNCHANGED <<wl, wlStatus, sock, stranger>>
     ELSE IF ~TargetExists
     THEN HThrow("ProcessLookupError", sigLog) /\ UNCHANGED <<wl, wlStatus, sock, stranger>>
     ELSE IF TargetOf(firecracker_pid) = "stranger"
     THEN /\ HStep("sleep", [sigLog EXCEPT ![Top.n].forced = TRUE])
          /\ stranger' = "signalled"
          /\ UNCHANGED <<wl, wlStatus, sock>>
     ELSE /\ HStep("sleep", [sigLog EXCEPT ![Top.n].forced = TRUE])
          /\ UNCHANGED stranger
          /\ \E dies \in BOOLEAN :
               IF dies
               THEN /\ wl' = "dead"
                    /\ wlStatus' = 0 - SigNum(Top.sig)
                    /\ sock' = SockAfterExit(sock)
               ELSE UNCHANGED <<wl, wlStatus, sock>>
  /\ UNCHANGED <<hFrame, returncode, child, childStatus, SentCtrlAltDel>>

\* lines 93 and 100: time.sleep(0.25)
HSleep ==
  /\ Handling("sleep")
  /\ HStep("kill2", sigLog)
  /\ UNCHANGED <<hFrame, stranger, returncode, child, childStatus, wl, wlStatus, sock, SentCtrlAltDel>>

\* lines 94-97 and 101-104: SIGKILL; ProcessLookupError is caught
HKill2 ==
  /\ Handling("kill2")
  /\ IF TargetOf(firecracker_pid) = "workload"
     THEN /\ wl' = "dead"
          /\ wlStatus' = 0 - SIGKILL
          /\ sock' = SockAfterExit(sock)
          /\ UNCHANGED stranger
     ELSE IF TargetOf(firecracker_pid) = "stranger"
     THEN /\ stranger' = "killed"
          /\ UNCHANGED <<wl, wlStatus, sock>>
     ELSE UNCHANGED <<wl, wlStatus, sock, stranger>>
  /\ HReturn(sigLog)
  /\ UNCHANGED <<hFrame, returncode, child, childStatus, SentCtrlAltDel>>

\* ---------------------------------------------------------- specifications
\* the host at the start: no tap, fctap0..fctap4, one free name, none
HostBases == {0, 5, TapNamespace - 1, TapNamespace}

\* One instance that stages: a relative boot image, no initrd, relative drives.
RunKernels == { [pat |-> [abs |-> FALSE, rel |-> "vmlinux-*"], order |-> None] }
RunInitrds == { None }
RunDrives  == { [pat |-> [abs |-> FALSE, rel |-> "disk-*"], order |-> None] }
OptInitrds == {None} \cup { Some(p) : p \in InitrdPatterns }

\* The staging phase over every artifact configuration, to the start of the jailer.
InitStage == InitCommon /\ hostBase = 0

NextStage ==
  \/ Preflight(BinFiles)
  \/ MkRoot
  \/ DefineOrders(BOOLEAN)
  \/ StageKernel(Artifacts(KernelPatterns))
  \/ StageInitrd(OptInitrds)
  \/ StageDrive(Artifacts(DrivePatterns))
  \/ DrivesDone
  \/ NextIface({"bridge"}, MaxIfaces)
  \/ TapAdd({"ok"})
  \/ TapSet({"ok"})
  \/ NetDone
  \/ WriteConfig
  \/ InstallHandlers
  \/ Popen(ExecOutcomes, BOOLEAN)
  \/ StartupSignal
  \/ CleanupTap
  \/ CleanupTapsDone
  \/ CleanupRmtree

SpecStage == InitStage /\ [][NextStage]_vars

\* The network phase over every host and interface list, one staged instance.
InitNet == InitCommon /\ hostBase \in HostBases

NextNet ==
  \/ Preflight(BinFiles)
  \/ MkRoot
  \/ DefineOrders(BOOLEAN)
  \/ StageKernel(RunKernels)
  \/ StageInitrd(RunInitrds)
  \/ StageDrive(RunDrives)
  \/ DrivesDone
  \/ NextIface(IfaceKinds, MaxIfaces)
  \/ TapAdd(IpOutcomes)
  \/ TapSet(IpOutcomes)
  \/ NetDone
  \/ OtherProcess
  \/ WriteConfig
  \/ InstallHandlers
  \/ Popen(ExecOutcomes, BOOLEAN)
  \/ StartupSignal
  \/ CleanupTap
  \/ CleanupTapsDone
  \/ CleanupRmtree

SpecNet == InitNet /\ [][NextNet]_vars

\* The same runs, with cleanup invoked a second time after the exit hook.
NextCleanup ==
  \/ NextNet
  \/ CleanupAgain

SpecCleanup == InitNet /\ [][NextCleanup]_vars

\* The whole run of one instance that stages: start, launch, supervision,
\* signals, exit.
Init == InitCommon /\ hostBase = 0

Next ==
  \/ Preflight(BinFiles)
  \/ MkRoot
  \/ DefineOrders({TRUE})
  \/ StageKernel(RunKernels)
  \/ StageInitrd(RunInitrds)
  \/ StageDrive(RunDrives)
  \/ DrivesDone
  \/ NextIface({"bridge"}, 1)
  \/ TapAdd(IpOutcomes)
  \/ TapSet(IpOutcomes)
  \/ NetDone
  \/ WriteConfig
  \/ InstallHandlers
  \/ Popen(ExecOutcomes, BOOLEAN)
  \/ StartupSignal
  \/ EnterWait
  \/ Wait
  \/ ReadPid
  \/ PidfdOpen(BOOLEAN)
  \/ PollProbe
  \/ PollSleep
  \/ SysExit
  \/ SocketUp
  \/ ChildExits(ExitCodes)
  \/ JailerForks
  \/ WorkloadExits(ExitCodes)
  \/ PidReuse
  \/ StrangerExits
  \/ Deliver(Signals)
  \/ HConnect
  \/ HSend
  \/ HRecv
  \/ HClose
  \/ HPoll
  \/ HForward
  \/ HGrace
  \/ HElse
  \/ HSleep
  \/ HKill2
  \/ CleanupTap
  \/ CleanupTapsDone
  \/ CleanupRmtree

Spec == Init /\ [][Next]_vars


\* ----------------------------------------------------------- cleanup (C2-C5)
\* cleanup ran to its end, not cut short by a signal of the host
CleanupUninterrupted == pc = "terminated" /\ cleanupExc # "KeyboardInterrupt"
\* the supervisor has ended and no signal arrived while cleanup was running
EndedUncut == pc \in EndPcs /\ cleanupExc = "none" /\ ~(pc = "killed" /\ cleanupRuns > 0)

\* C2: whenever the supervisor has ended, by exit, uncaught error or one of
\* the four signals, after the instance root was computed or a tap recorded,
\* cleanup has run exactly once and neither the instance root nor a tap
\* device this run created is left on the host (granted that no further
\* signal cut cleanup itself short).
C2_CleanupOnEveryPath ==
  (EndedUncut /\ (instance_dir = "def" \/ created_tap_interfaces # <<>>))
    => (cleanupRuns = 1 /\ ~rootExists /\ ownDevs = {})

C4_CleanupIdempotent ==
  cleanupRuns > 1 =>
    /\ \A i \in (Len(created_tap_interfaces) + 1)..Len(delAttempts) : i \in delFailed
    /\ pc = "terminated" => cleanupExc \in {"none", "KeyboardInterrupt"}

\* C5: when the instance root does not exist at the exit (never computed, or
\* computed but not created), rmtree's step of cleanup ends without an error.
C5_NoRootSilentNoOp ==
  [][(pc = "cleanup_rmtree" /\ ~rootExists /\ CleanupRmtree) => cleanupExc' = "none"]_vars

\* ----------------------------------------------------- resolution (C9, C10)
\* the files the pattern of a configuration entry matches under its own base
OwnBase(a) == IF a.pat.abs THEN "/" ELSE IF a.kind = "drive" THEN "ibase" ELSE "kbase"
OwnMatches(a) == Glob(OwnBase(a), a.pat.rel)

\* C9: after an entry whose "glob_order" names no built-in ordering was
\* resolved, the run has aborted with ConfigError, nothing was linked for
\* the entry, no jailer was started, and the ordering used is a built-in one.
C9_UnknownOrderingFatal ==
  /\ (artifact # None /\ artifact[1].order # None /\ artifact[1].order[1] \notin Orderings)
       => (exc = "ConfigError" /\ "jailer" \notin spawned)
  /\ glob_order # None => glob_order[1] \in Orderings

\* C10: after an entry whose pattern matches no file was resolved, the run has
\* aborted with a ConfigError that names the pattern, no child process was
\* started, and once cleanup is through nothing staged is left.
C10_ZeroMatchesFatal ==
  (artifact # None /\ OwnMatches(artifact[1]) = {})
    => /\ exc = "ConfigError"
       /\ errText = PatText(artifact[1].pat)
       /\ spawned = {}
       /\ CleanupUninterrupted => (~rootExists /\ links = {})

\* ------------------------------------------------------ staging (C11, C12)
\* the configuration names n for an artifact resolved to the host path:
\* n is the path's file name alone, and the instance root holds a link of
\* that name to that path
StagedAs(n, path) == n = Name(path) /\ HardLink(n, path) \in links

\* C11: when the jailer has just been started, each artifact path in the
\* written config.json is the bare file name of the host file resolved for
\* the artifact, and the instance root holds a link of that name to it.
C11_StagedNamesBare ==
  pc = "launched" =>
    /\ config_json # None
    /\ LET c == config_json[1]
       IN /\ c.kernel # None /\ resolved.kernel # None
          /\ StagedAs(c.kernel[1], resolved.kernel[1])
          /\ c.initrd # None =>
               (resolved.initrd # None /\ StagedAs(c.initrd[1], resolved.initrd[1]))
          /\ Len(c.drives) = Len(resolved.drives)
          /\ \A i \in 1..Len(c.drives) : StagedAs(c.drives[i], resolved.drives[i])

\* a launch with an initrd, an absolute kernel and two drives staged
C11_Witness ==
  /\ pc = "launched"
  /\ config_json # None
  /\ config_json[1].initrd # None
  /\ Len(config_json[1].drives) = 2
  /\ resolved.kernel = Some(<<"/", "boot", "vmlinux-3">>)
  /\ Cardinality(links) = 4

\* the ordering an entry configures: its override, else the default
ConfiguredOrder(a) == IF a.order = None THEN default_glob_order ELSE a.order[1]
\* the entry's override, if any, names an ordering the script defines
WellOrdered(a) == a.order = None \/ a.order[1] \in Orderings \cap GlobalNames(default_glob_order)
\* the host path the entry resolved last was bound to, None when it failed
ResolvedFor(a) ==
  CASE a.kind = "kernel" -> resolved.kernel
    [] a.kind = "initrd" -> resolved.initrd
    [] a.kind = "drive"  -> IF Len(resolved.drives) = nDrives /\ nDrives > 0
                            THEN Some(resolved.drives[nDrives]) ELSE None

\* C12: the file an entry is resolved to is a maximum, under the entry's
\* configured ordering, of the matches of the entry's own pattern under its
\* own base (the filesystem root for an absolute pattern).
C12_ResolvedFromOwnPattern ==
  (artifact # None /\ WellOrdered(artifact[1]) /\ ResolvedFor(artifact[1]) # None)
    => \E f \in MaxBy(ConfiguredOrder(artifact[1]), OwnMatches(artifact[1])) :
         PathOf(f) = ResolvedFor(artifact[1])[1]

\* ------------------------------------------------- binaries and taps (C13, C14)
\* the run failed because the jailer could not be executed
LauncherNotExecutable == handlersInstalled /\ exc = "PermissionError" /\ "jailer" \notin spawned

\* C13: a run that fails because the launcher binary cannot be executed has
\* failed before the instance root was computed or created, before any
\* artifact was resolved and linked and before any tap was recorded.
C13_PreflightBinaries ==
  LauncherNotExecutable =>
    /\ instance_dir = "undef"
    /\ resolved.kernel = None
    /\ created_tap_interfaces = <<>>
    /\ spawned = {}

\* C14: whenever provisioning goes on to create a device for an interface,
\* the name it recorded for it is fctap<j> for the least j of the namespace
\* that is no device of the host at the scan; with the namespace exhausted
\* it records nothing and creates nothing.
C14_TapAllocation ==
  [][(pc = "network" /\ pc' = "tap_add") =>
       /\ tap' # None
       /\ tap'[1] \in 0..(TapNamespace - 1)
       /\ ~HasDev(tap'[1])
       /\ \A k \in 0..(tap'[1] - 1) : HasDev(k)
       /\ created_tap_interfaces' = Append(created_tap_interfaces, tap'[1])]_vars

\* ------------------------------------------------ signals and exit (C1, C6-C8)
\* the handling of the k-th delivered signal has ended, by return or exception
Handled(k) == k <= Len(sigLog) /\ sigLog[k].result # "running"

\* C1: of two signals delivered to a supervisor whose workload runs, the
\* second after the handling of the first has ended, the first sends the
\* shutdown request and signals no process, the second forwards the signal
\* and sends no request.
C1_EscalationMonotonic ==
  (/\ Handled(2)
   /\ sigLog[1].alive
   /\ sigLog[2].alive
   /\ ~sigLog[2].nested)
    => /\ sigLog[1].sent /\ ~sigLog[1].forced
       /\ sigLog[2].forced /\ ~sigLog[2].sent

\* C6: once the first signal, delivered while the workload runs, has been
\* handled, whatever the control endpoint did, the handler has returned, the
\* latch is set and the main flow goes on.
C6_GracefulRecovers ==
  (nsig = 1 /\ Handled(1) /\ sigLog[1].alive)
    => (sigLog[1].result = "returned" /\ SentCtrlAltDel /\ exc = "none")

\* C7: a signal handled with the latch set after the supervised process has
\* exited returns from the handler, and the main flow is not ended by it.
C7_ForcedSwallowsExited ==
  \A k \in 1..Len(sigLog) :
    (Handled(k) /\ sigLog[k].latch /\ ~sigLog[k].alive /\ ~sigLog[k].nested)
      => (sigLog[k].result = "returned" /\ exc = "none")

\* the supervised process's status: the forked workload's with --new-pid-ns
SupervisedStatus == IF new_pid_ns THEN wlStatus ELSE childStatus

\* C8: a supervisor that ends without an internal failure exits with the
\* exit code of the supervised process, in either mode.
C8_ExitCodePropagates ==
  (exitCode # None /\ exc = "none") => exitCode[1] = ExitStatus(SupervisedStatus)

\* ------------------------------------------------- escalation (C15-C18)
\* C15: a supervisor that has ended after two signals were delivered while
\* its workload ran has handled both, the workload is dead and cleanup has
\* run once, to its end.
C15_EscalationEnds ==
  (pc \in EndPcs /\ nsig >= 2 /\ sigLog[1].alive /\ sigLog[2].alive)
    => /\ Handled(1) /\ Handled(2)
       /\ ~WorkloadRunning
       /\ cleanupRuns = 1 /\ cleanupExc = "none" /\ ~rootExists

\* C16: no handling of a signal ends on a name that was never assigned
\* (firecracker_process, firecracker_pid).
C16_NoUnassignedRead ==
  \A k \in 1..Len(sigLog) : sigLog[k].result # "NameError"

\* C17: while the workload is alive its instance root exists.
C17_RootOutlivesWorkload ==
  WorkloadRunning => rootExists

\* C18: over the whole run at most one handling sends the shutdown request,
\* and a signal delivered while another is being handled is forwarded, not
\* answered with a request.
C18_NestedKeepsRequestUnique ==
  /\ Cardinality({ k \in 1..Len(sigLog) : sigLog[k].sent }) <= 1
  /\ \A k \in 1..Len(sigLog) : (sigLog[k].nested /\ Handled(k)) => ~sigLog[k].sent

\* ------------------------------------------------------- ownership (C19)
\* C19: a deletion of cleanup that finds its device deletes a device this
\* run created.
C19_DeletesOnlyOwn ==
  [][(pc = "cleanup_taps" /\ tapIdx' = tapIdx + 1 /\ HasDev(created_tap_interfaces[tapIdx]))
       => created_tap_interfaces[tapIdx] \in ownDevs]_vars

\* ------------------------------------------------------- PID reuse (C20)
\* C20: the supervisor never signals or kills the unrelated process that got
\* the workload's PID number.
C20_SignalsOnlyWorkload ==
  stranger \notin {"signalled", "killed"}

====
